---- MODULE Spec2Model ----
(***************************************************************************)
(* A model of the lazy linked list of package functools: LinkedList is a   *)
(* pointer to a closure returning *Node, Empty is the nil *LinkedList, and *)
(* Cons, List, ToList, Length, ToSlice, Take, Drop, Map and Reduce are     *)
(* translated from the Go source.                                          *)
(*                                                                         *)
(* Closures that never reassign what they capture (Cons, Take, Map) are    *)
(* modelled as values holding their captured variables.  The closure of    *)
(* Drop reassigns its captured n and list, so a Drop thunk is a reference  *)
(* to a cell of the store `cells`, and forcing it updates that cell.       *)
(* A nil pointer dereference and an explicit panic are the outcome         *)
(* "panic"; an endless loop is the outcome "diverge".                      *)
(***************************************************************************)
EXTENDS Integers, Sequences, FiniteSets, TLC

\* Longest input slice.
MaxLen == 2
\* Largest count handed to Take and Drop (counts range over -1..MaxN).
MaxN == 3
\* Number of forcings and traversals the caller performs.
MaxSteps == 3

\* Element values of the input slices, and seeds of generated lists.
Elems == {1, 2}
\* One-argument functions handed to Map (and successors handed to Generate).
MapFns == {"inc", "dbl"}
\* Two-argument functions handed to Reduce, and the initial values.
RedFns == {"add", "horner"}
Inits == {0, 1}
Counts == (0 - 1)..MaxN
Threads == {1, 2}
\* A traversal that visits more nodes than any finite list of the model has
\* is a traversal of an infinite list.
Fuel == MaxLen + MaxN + 1

Min(a, b) == IF a < b THEN a ELSE b
Max(a, b) == IF a < b THEN b ELSE a

(***************************************************************************)
(* Values.                                                                 *)
(***************************************************************************)
\* var Empty *LinkedList: the nil pointer.
Empty == [kind |-> "nil"]
\* No thunk at all (the caller holds none yet).
NoThunk == [kind |-> "none"]

\* The results of invoking a thunk: &Node{Head, Tail}, a nil *Node, a panic.
Node(head, tail) == [tag |-> "node", Head |-> head, Tail |-> tail]
NilNode == [tag |-> "nil", Head |-> 0, Tail |-> Empty]
Panic == [tag |-> "panic", Head |-> 0, Tail |-> Empty]

\* expr.Call(args)[0].Interface() for the one-argument functions.
Call1(f, x) == IF f = "inc" THEN x + 1 ELSE 2 * x
\* expr.Call(args)[0].Interface() for the two-argument functions.
Call2(f, acc, x) == IF f = "add" THEN acc + x ELSE 2 * acc + x

\* Cons returns a pointer to a closure that captures head and tail.
Cons(head, tail) == [kind |-> "cons", head |-> head, tail |-> tail]
\* Take returns a pointer to a closure that captures list and n; the receiver
\* may be nil, it is not dereferenced here.
Take(list, n) == [kind |-> "take", list |-> list, n |-> n]
\* Map returns a pointer to a closure that captures list and f.
Map(list, f) == [kind |-> "map", list |-> list, f |-> f]
\* Generate(seed, successor): the infinite list seed, successor(seed), ...
Generate(seed, f) == [kind |-> "gen", seed |-> seed, f |-> f]
\* Drop returns a pointer to a closure whose captured list and n live in a
\* cell, because the closure reassigns them.
DropCell(list, n) == [list |-> list, n |-> n]
DropRef(c) == [kind |-> "drop", cell |-> c]

\* The instrumented machine: the cells of the Drop closures, the arguments
\* Map's f was called with (in call order), and the thunks of the underlying
\* list (Cons and Generate closures) that were invoked.
NewMachine == [cells |-> <<>>, mcalls |-> <<>>, forced |-> {}]

(***************************************************************************)
(* Invoking a thunk (the call through the dereferenced list pointer).     *)
(***************************************************************************)
RECURSIVE Force(_, _)
RECURSIVE taken(_, _)
RECURSIVE remaining(_, _)
RECURSIVE mapped(_, _)

\* list = func() *Node { return &Node{head, tail} }
ConsClosure(m, p) ==
    [m |-> [m EXCEPT !.forced = @ \cup {p}], out |-> Node(p.head, p.tail)]

\* The closure of a generated list: its head is the seed and its tail is the
\* list generated from successor(seed).
GenClosure(m, p) ==
    [m |-> [m EXCEPT !.forced = @ \cup {p}],
     out |-> Node(p.seed, Generate(Call1(p.f, p.seed), p.f))]

\* taken with the test n >= 0 in place of n > 0.
takenOffByOne(m, p) ==
    IF p.n >= 0
    THEN LET r == Force(m, p.list)
         IN  IF r.out.tag = "node"
             THEN [m |-> r.m,
                   out |-> Node(r.out.Head, Take(r.out.Tail, p.n - 1))]
             ELSE r
    ELSE [m |-> m, out |-> NilNode]

\* taken = func() *Node { if n > 0 { node := list(); if node != nil {
\*     return &Node{node.Head, node.Tail.Take(n - 1)} } }; return nil }
taken(m, p) ==
    IF p.n > 0
    THEN LET r == Force(m, p.list)
         IN  IF r.out.tag = "node"
             THEN [m |-> r.m,
                   out |-> Node(r.out.Head, Take(r.out.Tail, p.n - 1))]
             ELSE r
    ELSE [m |-> m, out |-> NilNode]

\* remaining counting down on a copy of n: list is reassigned and kept, the
\* captured n is what it was when the closure returns.
remainingLocalCount(m, p) ==
    LET r == Force(m, m.cells[p.cell].list)
        s == IF r.out.tag = "node" /\ r.m.cells[p.cell].n > 0
             THEN Force([r.m EXCEPT !.cells[p.cell] =
                             DropCell(r.out.Tail, r.m.cells[p.cell].n - 1)], p)
             ELSE r
    IN  [m |-> [s.m EXCEPT !.cells[p.cell].n = m.cells[p.cell].n],
         out |-> s.out]

\* remaining = func() *Node { node := list(); if node != nil { if n > 0 {
\*     n--; list = node.Tail; return remaining() }; return node }; return nil }
remaining(m, p) ==
    LET r == Force(m, m.cells[p.cell].list)
    IN  IF r.out.tag = "node" /\ r.m.cells[p.cell].n > 0
        THEN Force([r.m EXCEPT !.cells[p.cell] =
                        DropCell(r.out.Tail, r.m.cells[p.cell].n - 1)], p)
        ELSE r

\* mapped calling f a second time when it builds the node.
mappedCallsTwice(m, p) ==
    LET r == Force(m, p.list)
    IN  IF r.out.tag = "node"
        THEN [m |-> [r.m EXCEPT !.mcalls = Append(Append(@, r.out.Head),
                                                  r.out.Head)],
              out |-> Node(Call1(p.f, r.out.Head),
                           IF r.out.Tail # Empty
                           THEN Map(r.out.Tail, p.f) ELSE Empty)]
        ELSE r

\* mapped = func() *Node { node := list(); if node != nil {
\*     head := expr.Call(node.Head); tail := Empty
\*     if node.Tail != nil { tail = node.Tail.Map(f) }
\*     return &Node{head, tail} }; return nil }
mapped(m, p) ==
    LET r == Force(m, p.list)
    IN  IF r.out.tag = "node"
        THEN [m |-> [r.m EXCEPT !.mcalls = Append(@, r.out.Head)],
              out |-> Node(Call1(p.f, r.out.Head),
                           IF r.out.Tail # Empty
                           THEN Map(r.out.Tail, p.f) ELSE Empty)]
        ELSE r

\* The call through list: dereferencing the nil pointer panics; otherwise the closure runs.
Force(m, p) ==
    IF p.kind = "nil" THEN [m |-> m, out |-> Panic]
    ELSE IF p.kind = "cons" THEN ConsClosure(m, p)
    ELSE IF p.kind = "gen" THEN GenClosure(m, p)
    ELSE IF p.kind = "take" THEN taken(m, p)
    ELSE IF p.kind = "drop" THEN remaining(m, p)
    ELSE mapped(m, p)

(***************************************************************************)
(* Construction.                                                           *)
(***************************************************************************)
\* A value handed to ToList: its reflect.Kind and its content.
Slices == UNION {[1..k -> Elems] : k \in 0..MaxLen}
Inputs ==
    {[kind |-> "Slice", val |-> s] : s \in Slices}
    \cup {[kind |-> "Array", val |-> <<1, 2>>],
          [kind |-> "Int", val |-> 5],
          [kind |-> "Nil", val |-> 0]}

\* for i := val.Len() - 1; i >= 0; i-- { result = Cons(val.Index(i), result) }
RECURSIVE ToListLoop(_, _, _)
ToListLoop(val, i, result) ==
    IF i >= 1 THEN ToListLoop(val, i - 1, Cons(val[i], result)) ELSE result

\* ToList without the check of the kind: a value that is no slice becomes a
\* list of one element.
ToListCoerce(elements) ==
    IF elements.kind = "Slice"
    THEN [ok |-> TRUE,
          list |-> ToListLoop(elements.val, Len(elements.val), Empty)]
    ELSE [ok |-> TRUE, list |-> Cons(elements.val, Empty)]

\* ToList panics unless elements is a non-nil value of kind Slice; otherwise
\* it builds the list in reverse, starting from Empty.
ToList(elements) ==
    IF elements.kind = "Nil" \/ elements.kind # "Slice"
    THEN [ok |-> FALSE, list |-> Empty]
    ELSE [ok |-> TRUE,
          list |-> ToListLoop(elements.val, Len(elements.val), Empty)]

\* List(elements...): Empty for no elements, else
\* Cons(elements[0], List(elements[1:]...)).
RECURSIVE List(_)
List(elements) ==
    IF Len(elements) > 0
    THEN Cons(Head(elements), List(Tail(elements)))
    ELSE Empty

(***************************************************************************)
(* Consumption.  Every traversal reports, beside its result, the machine   *)
(* it leaves and the number of nodes it obtained from thunks.              *)
(***************************************************************************)
Traversed(m, status, val, nodes) ==
    [m |-> m, status |-> status, val |-> val, nodes |-> nodes]

\* for node != nil { if node.Tail != nil { node = node.Tail() } else
\*     { node = nil }; length++ }
RECURSIVE LengthLoop(_, _, _)
LengthLoop(m, node, length) ==
    IF node.tag = "panic" THEN Traversed(m, "panic", 0, length)
    ELSE IF node.tag = "nil" THEN Traversed(m, "ok", length, length)
    ELSE IF length >= Fuel THEN Traversed(m, "diverge", 0, length)
    ELSE IF node.Tail # Empty
    THEN LET r == Force(m, node.Tail) IN LengthLoop(r.m, r.out, length + 1)
    ELSE LengthLoop(m, NilNode, length + 1)

\* length := 0; node := list(); the loop; return length
Length(m, list) ==
    LET r == Force(m, list) IN LengthLoop(r.m, r.out, 0)

\* for i := 0; node != nil; i++ { result[i] = node.Head; if node.Tail != nil
\*     { node = node.Tail() } else { node = nil } }
\* Writing result[i] beyond the slice's length panics (index out of range).
RECURSIVE ToSliceLoop(_, _, _, _, _)
ToSliceLoop(m, node, i, result, seen) ==
    IF node.tag = "panic" THEN Traversed(m, "panic", result, seen)
    ELSE IF node.tag = "nil" THEN Traversed(m, "ok", result, seen)
    ELSE IF i >= Len(result) THEN Traversed(m, "panic", result, seen + 1)
    ELSE LET filled == [result EXCEPT ![i + 1] = node.Head]
         IN  IF node.Tail # Empty
             THEN LET r == Force(m, node.Tail)
                  IN  ToSliceLoop(r.m, r.out, i + 1, filled, seen + 1)
             ELSE ToSliceLoop(m, NilNode, i + 1, filled, seen + 1)

\* result := make([]Anything, list.Length()); node := list(); the loop.
\* The fresh slice holds nil in every slot, written 0 here.
ToSlice(m, list) ==
    LET n == Length(m, list)
    IN  IF n.status # "ok" THEN Traversed(n.m, n.status, <<>>, n.nodes)
        ELSE LET r == Force(n.m, list)
             IN  ToSliceLoop(r.m, r.out, 0, [k \in 1..n.val |-> 0], n.nodes)

\* for node != nil { memo = expr.Call(memo, node.Head); if node.Tail != nil
\*     { node = node.Tail() } else { node = nil } }
RECURSIVE ReduceLoop(_, _, _, _, _)
ReduceLoop(m, node, f, memo, seen) ==
    IF node.tag = "panic" THEN Traversed(m, "panic", memo, seen)
    ELSE IF node.tag = "nil" THEN Traversed(m, "ok", memo, seen)
    ELSE IF seen >= Fuel THEN Traversed(m, "diverge", memo, seen)
    ELSE LET acc == Call2(f, memo, node.Head)
         IN  IF node.Tail # Empty
             THEN LET r == Force(m, node.Tail)
                  IN  ReduceLoop(r.m, r.out, f, acc, seen + 1)
             ELSE ReduceLoop(m, NilNode, f, acc, seen + 1)

\* node := list(); the loop; return memo
Reduce(m, list, f, memo) ==
    LET r == Force(m, list) IN ReduceLoop(r.m, r.out, f, memo, 0)

(***************************************************************************)
(* What a caller can observe of a node: its head and the elements its tail *)
(* goes on to yield.  The observation runs on a copy of the machine.       *)
(***************************************************************************)
RECURSIVE Elements(_, _, _)
Elements(m, p, fuel) ==
    IF p = Empty THEN [elems |-> <<>>, end |-> "nil"]
    ELSE LET r == Force(m, p)
         IN  IF r.out.tag = "panic" THEN [elems |-> <<>>, end |-> "panic"]
             ELSE IF r.out.tag = "nil" THEN [elems |-> <<>>, end |-> "nil"]
             ELSE IF fuel = 0 THEN [elems |-> <<>>, end |-> "more"]
             ELSE LET rest == Elements(r.m, r.out.Tail, fuel - 1)
                  IN  [elems |-> <<r.out.Head>> \o rest.elems,
                       end |-> rest.end]

NoRest == [elems |-> <<>>, end |-> "nil"]
NoView == [tag |-> "none", Head |-> 0, rest |-> NoRest]
View(m, out) ==
    [tag |-> out.tag, Head |-> out.Head,
     rest |-> IF out.tag = "node" THEN Elements(m, out.Tail, Fuel) ELSE NoRest]

(***************************************************************************)
(* The state: a caller builds a list (ToList, List or Generate), derives a *)
(* list from it (Take or Drop, then Map), and then forces thunks and runs  *)
(* traversals.  Two threads forcing one thunk are a second specification.  *)
(***************************************************************************)
VARIABLES
    stage,    \* "init", "failed" (the constructor panicked), "base", "cut",
              \* "mapped", "hung" (a traversal of an infinite list never ends)
    src,      \* the value the list was built from
    base,     \* the list the constructor returned
    mid,      \* the list Map was applied to (the current list when none was)
    cur,      \* the current list
    ops,      \* the combinators applied to base, in order
    m,        \* the machine: Drop cells, calls of Map's f, thunks of base invoked
    client,   \* the thunk the caller forced last and what it observed
    res,      \* the last traversal and its outcome
    nodes,    \* nodes the caller and the traversals obtained from thunks
    seenPos,  \* positions of the current list at which a node was obtained
    steps,    \* forcings and traversals so far
    tpc,      \* per thread: where it is in the closure it is forcing
    tnode,    \* per thread: its local variable node
    ttmp,     \* per thread: the value of n it read for n--
    tres,     \* per thread: what it observed of the node it got
    expected  \* what one sequential forcing of the thunk observes

vars == <<stage, src, base, mid, cur, ops, m, client, res, nodes, seenPos,
          steps, tpc, tnode, ttmp, tres, expected>>
listVars == <<stage, src, base, mid, cur, ops>>
clientVars == <<client, res, nodes, seenPos, steps>>
threadVars == <<tpc, tnode, ttmp, tres, expected>>

NoClient ==
    [thunk |-> NoThunk, pos |-> 0, times |-> 0, first |-> NoView,
     view |-> NoView, node |-> NilNode]
NoArg == [f |-> "none", memo |-> 0]
NoResult == [op |-> "none", arg |-> NoArg, status |-> "none", val |-> 0]

Init ==
    /\ stage = "init"
    /\ src = [kind |-> "none", val |-> 0]
    /\ base = Empty /\ mid = Empty /\ cur = Empty
    /\ ops = <<>>
    /\ m = NewMachine
    /\ client = NoClient
    /\ res = NoResult
    /\ nodes = 0 /\ seenPos = {} /\ steps = 0
    /\ tpc = [t \in Threads |-> "idle"]
    /\ tnode = [t \in Threads |-> NilNode]
    /\ ttmp = [t \in Threads |-> 0]
    /\ tres = [t \in Threads |-> NoView]
    /\ expected = NoView

Built == stage \in {"base", "cut", "mapped"}

\* list := ToList(elements)
DoToList(elements) ==
    /\ stage = "init"
    /\ LET r == ToList(elements)
       IN  /\ stage' = IF r.ok THEN "base" ELSE "failed"
           /\ base' = r.list /\ mid' = r.list /\ cur' = r.list
    /\ src' = elements
    /\ UNCHANGED <<ops, m, clientVars, threadVars>>

\* list := List(elements...)
DoList(elements) ==
    /\ stage = "init"
    /\ stage' = "base"
    /\ base' = List(elements) /\ mid' = base' /\ cur' = base'
    /\ src' = [kind |-> "Slice", val |-> elements]
    /\ UNCHANGED <<ops, m, clientVars, threadVars>>

\* list := Generate(seed, f)
DoGenerate(seed, f) ==
    /\ stage = "init"
    /\ stage' = "base"
    /\ base' = Generate(seed, f) /\ mid' = base' /\ cur' = base'
    /\ src' = [kind |-> "Gen", val |-> seed, f |-> f]
    /\ UNCHANGED <<ops, m, clientVars, threadVars>>

\* list = list.Take(n)
DoTake(n) ==
    /\ stage = "base" /\ steps = 0
    /\ stage' = "cut"
    /\ cur' = Take(cur, n) /\ mid' = cur'
    /\ ops' = Append(ops, [op |-> "Take", n |-> n])
    /\ UNCHANGED <<src, base, m, clientVars, threadVars>>

\* list = list.Drop(n): the new closure captures the receiver and n.
DoDrop(n) ==
    /\ stage = "base" /\ steps = 0
    /\ stage' = "cut"
    /\ m' = [m EXCEPT !.cells = Append(@, DropCell(cur, n))]
    /\ cur' = DropRef(Len(m.cells) + 1) /\ mid' = cur'
    /\ ops' = Append(ops, [op |-> "Drop", n |-> n])
    /\ UNCHANGED <<src, base, clientVars, threadVars>>

\* list = list.Map(f)
DoMap(f) ==
    /\ stage \in {"base", "cut"} /\ steps = 0
    /\ stage' = "mapped"
    /\ cur' = Map(cur, f)
    /\ ops' = Append(ops, [op |-> "Map", f |-> f])
    /\ UNCHANGED <<src, base, mid, m, clientVars, threadVars>>

\* The caller invokes thunk p, which stands at position pos of the current
\* list, for the k-th time.
Invoke(p, pos, k) ==
    LET r == Force(m, p)
        v == View(r.m, r.out)
    IN  /\ m' = r.m
        /\ client' = [thunk |-> p, pos |-> pos, times |-> k,
                      first |-> IF k = 1 THEN v ELSE client.first,
                      view |-> v, node |-> r.out]
        /\ nodes' = IF r.out.tag = "node" THEN nodes + 1 ELSE nodes
        /\ seenPos' = IF r.out.tag = "node" THEN seenPos \cup {pos}
                      ELSE seenPos
        /\ steps' = steps + 1
        /\ UNCHANGED <<listVars, res, threadVars>>

\* node := list()
ForceCur ==
    /\ Built /\ steps < MaxSteps /\ cur # Empty
    /\ Invoke(cur, 0, 1)

\* node = node.Tail(), after the caller's check node.Tail != nil
ForceTail ==
    /\ Built /\ steps < MaxSteps
    /\ client.node.tag = "node" /\ client.node.Tail # Empty
    /\ Invoke(client.node.Tail, client.pos + 1, 1)

\* The caller invokes once more the thunk it invoked last.
ForceAgain ==
    /\ Built /\ steps < MaxSteps
    /\ client.thunk # NoThunk
    /\ Invoke(client.thunk, client.pos, client.times + 1)

Traverse(op, arg, r, depth) ==
    /\ m' = r.m
    /\ res' = [op |-> op, arg |-> arg, status |-> r.status, val |-> r.val]
    /\ nodes' = nodes + r.nodes
    /\ seenPos' = seenPos \cup (0..(depth - 1))
    /\ steps' = steps + 1
    /\ stage' = IF r.status = "diverge" THEN "hung" ELSE stage
    /\ UNCHANGED <<src, base, mid, cur, ops, client, threadVars>>

\* list.Length()
DoLength ==
    /\ Built /\ steps < MaxSteps
    /\ LET r == Length(m, cur) IN Traverse("Length", NoArg, r, r.nodes)

\* ToSlice(list): its own loop follows the loop of Length.
DoToSlice ==
    /\ Built /\ steps < MaxSteps
    /\ LET r == ToSlice(m, cur)
           first == Length(m, cur).nodes
       IN  Traverse("ToSlice", NoArg, r, Max(first, r.nodes - first))

\* list.Reduce(f, memo)
DoReduce(f, memo) ==
    /\ Built /\ steps < MaxSteps
    /\ LET r == Reduce(m, cur, f, memo)
       IN  Traverse("Reduce", [f |-> f, memo |-> memo], r, r.nodes)

Next ==
    \/ \E e \in Inputs : DoToList(e)
    \/ \E s \in Slices : DoList(s)
    \/ \E seed \in Elems, f \in MapFns : DoGenerate(seed, f)
    \/ \E n \in Counts : DoTake(n)
    \/ \E n \in Counts : DoDrop(n)
    \/ \E f \in MapFns : DoMap(f)
    \/ ForceCur
    \/ ForceTail
    \/ ForceAgain
    \/ DoLength
    \/ DoToSlice
    \/ \E f \in RedFns, memo \in Inits : DoReduce(f, memo)

Spec == Init /\ [][Next]_vars

(***************************************************************************)
(* Two threads force the current thunk at the same time.  The closures of  *)
(* Cons, Take and Map read captured variables nobody writes and write only *)
(* objects they have just allocated, so a thread runs them in one step.    *)
(* The closure of Drop reads and writes its captured n and list, which the *)
(* threads share; a thread runs it statement by statement, n-- being a     *)
(* read followed by a write.                                               *)
(***************************************************************************)
Idle == \A t \in Threads : tpc[t] = "idle"
\* The list is built before the threads are started.
Unspawned == Idle /\ expected = NoView

\* Both threads are handed the thunk; `expected` is what one forcing yields.
Spawn ==
    /\ Built /\ cur # Empty /\ Unspawned
    /\ LET r == Force(m, cur) IN expected' = View(r.m, r.out)
    /\ tpc' = [t \in Threads |-> "call"]
    /\ UNCHANGED <<listVars, m, clientVars, tnode, ttmp, tres>>

Return(t, out) ==
    /\ tres' = [tres EXCEPT ![t] = View(m', out)]
    /\ tpc' = [tpc EXCEPT ![t] = "done"]

\* A thunk of Cons, Take or Map: the whole closure.
ThreadForce(t) ==
    /\ tpc[t] = "call" /\ cur.kind # "drop"
    /\ LET r == Force(m, cur) IN m' = r.m /\ Return(t, r.out)
    /\ UNCHANGED <<listVars, clientVars, tnode, ttmp, expected>>

\* remaining: node := list(); a nil node is returned at once.
ThreadCall(t) ==
    /\ tpc[t] = "call" /\ cur.kind = "drop"
    /\ LET r == Force(m, m.cells[cur.cell].list)
       IN  /\ m' = r.m
           /\ tnode' = [tnode EXCEPT ![t] = r.out]
           /\ IF r.out.tag = "node"
              THEN tpc' = [tpc EXCEPT ![t] = "test"] /\ UNCHANGED tres
              ELSE Return(t, r.out)
    /\ UNCHANGED <<listVars, clientVars, ttmp, expected>>

\* remaining: if n > 0 { ... }; return node
ThreadTest(t) ==
    /\ tpc[t] = "test"
    /\ m' = m
    /\ IF m.cells[cur.cell].n > 0
       THEN tpc' = [tpc EXCEPT ![t] = "load"] /\ UNCHANGED tres
       ELSE Return(t, tnode[t])
    /\ UNCHANGED <<listVars, clientVars, tnode, ttmp, expected>>

\* remaining: n-- reads n ...
ThreadLoad(t) ==
    /\ tpc[t] = "load"
    /\ ttmp' = [ttmp EXCEPT ![t] = m.cells[cur.cell].n]
    /\ tpc' = [tpc EXCEPT ![t] = "store"]
    /\ UNCHANGED <<listVars, m, clientVars, tnode, tres, expected>>

\* ... and writes n
ThreadStore(t) ==
    /\ tpc[t] = "store"
    /\ m' = [m EXCEPT !.cells[cur.cell].n = ttmp[t] - 1]
    /\ tpc' = [tpc EXCEPT ![t] = "assign"]
    /\ UNCHANGED <<listVars, clientVars, tnode, ttmp, tres, expected>>

\* remaining: list = node.Tail; return remaining()
ThreadAssign(t) ==
    /\ tpc[t] = "assign"
    /\ m' = [m EXCEPT !.cells[cur.cell].list = tnode[t].Tail]
    /\ tpc' = [tpc EXCEPT ![t] = "call"]
    /\ UNCHANGED <<listVars, clientVars, tnode, ttmp, tres, expected>>

NextConc ==
    \/ \E s \in Slices : DoToList([kind |-> "Slice", val |-> s])
    \/ \E n \in Counts : Unspawned /\ DoTake(n)
    \/ \E n \in Counts : Unspawned /\ DoDrop(n)
    \/ \E f \in MapFns : Unspawned /\ stage = "base" /\ DoMap(f)
    \/ Spawn
    \/ \E t \in Threads : ThreadForce(t)
    \/ \E t \in Threads : ThreadCall(t)
    \/ \E t \in Threads : ThreadTest(t)
    \/ \E t \in Threads : ThreadLoad(t)
    \/ \E t \in Threads : ThreadStore(t)
    \/ \E t \in Threads : ThreadAssign(t)

SpecConc == Init /\ [][NextConc]_vars

(***************************************************************************)
(* What the specification expects, stated on sequences.                    *)
(***************************************************************************)
Finite == src.kind = "Slice"
OneOp(op) == Len(ops) = 1 /\ ops[1].op = op
DropFirst(s, n) == SubSeq(s, Min(n, Len(s)) + 1, Len(s))
TakeFirst(s, n) == SubSeq(s, 1, Min(n, Len(s)))
MapSeq(f, s) == [i \in 1..Len(s) |-> Call1(f, s[i])]
RECURSIVE FoldLeft(_, _, _)
FoldLeft(f, acc, s) ==
    IF s = <<>> THEN acc ELSE FoldLeft(f, Call2(f, acc, Head(s)), Tail(s))

\* The elements of the list Map or Reduce is applied to, when base is built
\* from a slice and the count of Take or Drop is one for which Take and Drop
\* themselves yield a list that can be traversed.
CutInRange ==
    /\ Finite
    /\ \A i \in 1..Len(ops) :
         /\ ops[i].op = "Take" => ops[i].n >= 0 /\ ops[i].n <= Len(src.val)
         /\ ops[i].op = "Drop" => ops[i].n >= 0 /\ ops[i].n < Len(src.val)
CutElems ==
    IF ops # <<>> /\ ops[1].op = "Take" THEN TakeFirst(src.val, ops[1].n)
    ELSE IF ops # <<>> /\ ops[1].op = "Drop" THEN DropFirst(src.val, ops[1].n)
    ELSE src.val

\* The thunks at the first n positions of list p.
RECURSIVE FirstN(_, _)
FirstN(p, n) ==
    IF n <= 0 \/ p = Empty THEN {}
    ELSE {p} \cup FirstN(IF p.kind = "cons" THEN p.tail
                         ELSE Generate(Call1(p.f, p.seed), p.f), n - 1)

\* C1: for every slice xs, ToSlice(ToList(xs)) completes and returns xs.
C1_RoundTrip ==
    (res.op = "ToSlice" /\ ops = <<>> /\ Finite)
        => (res.status = "ok" /\ res.val = src.val)

\* C2: forcing the list L.Take(n) and its successive tails invokes only
\* thunks at the first n positions of L, and for n <= 0 the taken list yields
\* end-of-list and invokes no thunk of L.
C2_TakeForcesAtMostN ==
    OneOp("Take") =>
        /\ m.forced \subseteq FirstN(base, ops[1].n)
        /\ ops[1].n <= 0 =>
             /\ m.forced = {}
             /\ client.thunk = cur => client.view.tag = "nil"
             /\ res.op = "Length" => (res.status = "ok" /\ res.val = 0)

\* C2 witness: Take(2) of a generated (infinite) list forced at positions
\* 0, 1 and 2: two thunks of the list were invoked and position 2 is the end.
C2_Witness ==
    /\ OneOp("Take") /\ src.kind = "Gen" /\ ops[1].n = 2
    /\ client.pos = 2 /\ client.view.tag = "nil"
    /\ Cardinality(m.forced) = 2

\* C3: for n >= 0, L.Take(n).Length() is min(n, length of L) for a list built
\* from a slice, and n for an infinite list.
C3_TakeLength ==
    (res.op = "Length" /\ OneOp("Take") /\ ops[1].n >= 0)
        => /\ res.status = "ok"
           /\ res.val = IF Finite THEN Min(ops[1].n, Len(src.val))
                        ELSE ops[1].n

\* C4: for n >= 0, ToSlice(L.Drop(n)) is ToSlice(L) without its first
\* min(n, length of L) elements, and no failure occurs.
C4_DropSlice ==
    (res.op = "ToSlice" /\ OneOp("Drop") /\ ops[1].n >= 0 /\ Finite)
        => (res.status = "ok" /\ res.val = DropFirst(src.val, ops[1].n))

\* C5: ToSlice(L.Map(f)) is f applied to each element of L, in order, for
\* every finite L, the empty list and lists made by Take or Drop included.
C5_MapSlice ==
    (res.op = "ToSlice" /\ stage = "mapped" /\ CutInRange)
        => /\ res.status = "ok"
           /\ res.val = MapSeq(ops[Len(ops)].f, CutElems)

\* C6: L.Reduce(f, initial) is the left fold of f over the elements of L
\* from initial, and initial for a list with no elements.
C6_ReduceFold ==
    (res.op = "Reduce" /\ stage \in {"base", "cut"} /\ CutInRange)
        => /\ res.status = "ok"
           /\ res.val = FoldLeft(res.arg.f, res.arg.memo, CutElems)

\* C7 (as amended): f is called once per forcing of a mapped thunk that
\* yields a node: never when the mapped list is built, once and on the head
\* element when only the head is forced, and as often as nodes were obtained
\* after any forcings and traversals.
C7_OneCallPerForcing ==
    stage = "mapped" =>
        /\ Len(m.mcalls) = nodes
        /\ steps = 0 => m.mcalls = <<>>
        /\ (steps = 1 /\ client.thunk = cur /\ client.node.tag = "node")
             => m.mcalls = <<Force(m, mid).out.Head>>

\* C7 witness: one ToSlice of a mapped list of two elements.
C7_Witness ==
    /\ stage = "mapped" /\ steps = 1
    /\ res.op = "ToSlice" /\ res.status = "ok" /\ Len(res.val) = 2
    /\ Len(m.mcalls) = 4

\* C7 (as claimed): after any traversals the number of calls of f is the
\* number of distinct nodes of the mapped list that were forced.
C7_OneCallPerDistinctNode ==
    stage = "mapped" => Len(m.mcalls) = Cardinality(seenPos)

\* C8: ToList of a value that is no slice (a scalar, nil) panics and returns
\* no list.
C8_InvalidInput ==
    src.kind \in {"Int", "Nil"} => (stage = "failed" /\ cur = Empty)

\* C8 witness: ToList(5) was called.
C8_Witness == src.kind = "Int" /\ stage = "failed"

\* C9: every later forcing of a thunk yields the head and the remaining
\* sequence its first forcing yielded.
C9_RepeatedForcing ==
    client.times >= 2 => client.view = client.first

\* C9 witness: the thunk of L.Drop(n), n >= 1, forced twice, yielding a node.
C9_Witness ==
    /\ client.times >= 2 /\ client.thunk.kind = "drop"
    /\ ops[1].n >= 1 /\ client.view.tag = "node"

\* C10: two threads forcing one thunk of Cons, Take, Map or Drop over a
\* finite list each obtain the node one sequential forcing yields (stated for
\* the counts for which the sequential forcing does not fail).
C10_ConcurrentForcing ==
    CutInRange => \A t \in Threads : tpc[t] = "done" => tres[t] = expected

====
